---- MODULE Spec2Model ----
(***************************************************************************)
(* Model of src/api-test.py: a conformance test harness that sends nine    *)
(* fixed requests to one HTTP JSON endpoint and turns each response into a *)
(* pass/fail verdict.                                                      *)
(*                                                                         *)
(* Python values are modelled structurally.  A Python str is a sequence of *)
(* words (the unit of text of this model), so that the substring test      *)
(* `x in s` is a real search.  A decoded JSON value is a record tagged     *)
(* with its type; a dict is a set of <<key, value>> pairs with unique      *)
(* keys.  An expression that can raise evaluates to a record               *)
(* [exc, val]: exc = "none" and the value, or the exception's class name.  *)
(*                                                                         *)
(* Left out: the --verbose flag (it only adds prints of the request and of *)
(* response.text, and changes no verdict) and the text of the banners.     *)
(***************************************************************************)
EXTENDS Integers, Sequences, FiniteSets, TLC

\* ------------------------------------------------------------------ bounds

\* Longest JSON string, in words, that the modelled server sends.
MaxStrLen == 1

\* ------------------------------------------------------- JSON value universe

Words == {"threadId", "array", "empty", "Invalid JSON", "content", "error", "Hello"}

Strs == UNION {[1..n -> Words] : n \in 0..MaxStrLen}

Null == [t |-> "null", v |-> <<>>]
Num == [t |-> "num", v |-> <<>>]
Str(s) == [t |-> "str", v |-> s]
List(l) == [t |-> "list", v |-> l]
Dict(d) == [t |-> "dict", v |-> d]

\* The body of a response that is not JSON text (the empty body included).
NotJSON == [t |-> "notjson", v |-> <<>>]

Atoms == {Null, Num} \cup {Str(s) : s \in Strs}

Arrays == {List(<<>>)} \cup {List(<<a>>) : a \in {Null, Num} \cup {Str(<<w>>) : w \in Words}}

InnerKeys == {<<"content">>, <<"threadId">>}

InnerDicts == {Dict({})} \cup {Dict({<<k, x>>}) : k \in InnerKeys, x \in Atoms \cup Arrays}

Inner == Atoms \cup Arrays \cup InnerDicts

TopKeys == {<<"assistant">>, <<"error">>}

Bodies == {NotJSON} \cup Inner \cup {Dict({<<k, x>>}) : k \in TopKeys, x \in Inner}

\* ------------------------------------------------------- Python expressions

Val(x) == [exc |-> "none", val |-> x]
Raise(e) == [exc |-> e, val |-> Null]

\* s occurs in t as a contiguous run of words (str.__contains__).
IsSubstring(s, t) ==
  \E i \in 0..(Len(t) - Len(s)) : \A j \in 1..Len(s) : t[i + j] = s[j]

\* `x in c` for a str x: substring of a str, element of a list, key of a dict;
\* None and numbers are not iterable.
PyIn(x, c) ==
  CASE c.t = "str" -> Val(IsSubstring(x, c.v))
    [] c.t = "list" -> Val(\E i \in 1..Len(c.v) : c.v[i].t = "str" /\ c.v[i].v = x)
    [] c.t = "dict" -> Val(\E p \in c.v : p[1] = x)
    [] OTHER -> Raise("TypeError")

\* `c[k]` for a str k: the value under a dict's key, KeyError without it;
\* str and list take integer indices only; None and numbers take none.
PyGetItem(c, k) ==
  IF c.t = "dict"
  THEN IF \E p \in c.v : p[1] = k
       THEN Val((CHOOSE p \in c.v : p[1] = k)[2])
       ELSE Raise("KeyError")
  ELSE Raise("TypeError")

\* `c.get(k, default)`: only a dict has the method.
PyGet(c, k, default) ==
  IF c.t = "dict"
  THEN IF \E p \in c.v : p[1] = k
       THEN Val((CHOOSE p \in c.v : p[1] = k)[2])
       ELSE Val(default)
  ELSE Raise("AttributeError")

Min(a, b) == IF a < b THEN a ELSE b

\* `c[:n]`: a prefix of a str or of a list; nothing else can be sliced.
PySlice(c, n) ==
  IF c.t \in {"str", "list"}
  THEN Val([t |-> c.t, v |-> SubSeq(c.v, 1, Min(Len(c.v), n))])
  ELSE Raise("TypeError")

\* --------------------------------------------------------------- responses

\* What one call of requests.post / requests.options ends with: a response
\* (status, headers, body text) or a transport failure raised by the library.
Statuses == {200, 400, 403, 500}

\* str(e) of a transport failure; the library or a mock sets it freely.
Msgs == {"", "timed out"}

NoHeaders == {}

\* The two CORS headers of a response, each absent, empty or set.
HeaderSets ==
  {o \cup m : o \in {{}, {<<"Access-Control-Allow-Origin", "">>},
                     {<<"Access-Control-Allow-Origin", "*">>}},
              m \in {{}, {<<"Access-Control-Allow-Methods", "">>},
                     {<<"Access-Control-Allow-Methods", "POST">>}}}

Response(st, hd, b) ==
  [kind |-> "response", status |-> st, headers |-> hd, body |-> b, msg |-> ""]

Failure(cls, m) ==
  [kind |-> cls, status |-> 0, headers |-> NoHeaders, body |-> NotJSON, msg |-> m]

TransportFailures == {Failure(c, m) : c \in {"Timeout", "ConnectionError"}, m \in Msgs}

Responses ==
  {Response(st, NoHeaders, b) : st \in Statuses, b \in Bodies}
    \cup {Response(st, hd, NotJSON) : st \in Statuses, hd \in HeaderSets}
    \cup TransportFailures

\* The answers a full run draws from.  A full run keeps one verdict history
\* per combination of nine verdicts, so it draws from the answers below: for
\* each scenario one that passes it, one that fails it and one that makes it
\* raise, and every transport failure.  The single-scenario mode draws from all
\* of Responses.
CorsHeaders ==
  {<<"Access-Control-Allow-Origin", "*">>, <<"Access-Control-Allow-Methods", "POST">>}

Assistant(content) == Dict({<<<<"assistant">>, Dict({<<<<"content">>, content>>})>>})

Error(x) == Dict({<<<<"error">>, x>>})

FullRunResponses ==
  { Response(200, NoHeaders, Assistant(Str(<<"Hello">>))),
    Response(200, NoHeaders, Assistant(Num)),
    Response(200, CorsHeaders, NotJSON),
    Response(400, NoHeaders, Error(Str(<<"threadId">>))),
    Response(400, NoHeaders, Error(Str(<<"array">>))),
    Response(400, NoHeaders, Error(Str(<<"empty">>))),
    Response(400, NoHeaders, NotJSON),
    Response(400, NoHeaders, Null),
    Response(403, NoHeaders, NotJSON),
    Response(500, NoHeaders, NotJSON) }
    \cup TransportFailures

\* response.headers.get(name, "")
HeaderGet(r, name) ==
  IF \E p \in r.headers : p[1] = name
  THEN (CHOOSE p \in r.headers : p[1] = name)[2]
  ELSE ""

\* response.json(): the decoded body, or a JSON decode error.
Json(r) == IF r.body = NotJSON THEN Raise("JSONDecodeError") ELSE Val(r.body)

\* ---------------------------------------------------------- exception classes

\* The class response.json() raises depends on the installed requests, which
\* the repository does not pin: requests >= 2.27 raises
\* requests.exceptions.JSONDecodeError (a RequestException and a
\* json.JSONDecodeError); older versions raise json.JSONDecodeError, or
\* simplejson.JSONDecodeError when simplejson is installed (both ValueError).
Builds == {"requests.JSONDecodeError", "json.JSONDecodeError", "simplejson.JSONDecodeError"}

IsTimeout(e) == e = "Timeout"

IsRequestException(e, build) ==
  \/ e \in {"Timeout", "ConnectionError"}
  \/ e = "JSONDecodeError" /\ build = "requests.JSONDecodeError"

IsJsonDecodeError(e, build) ==
  e = "JSONDecodeError" /\ build \in {"requests.JSONDecodeError", "json.JSONDecodeError"}

\* ------------------------------------------------------------------ verdicts

\* The details string handed to print_result: its fixed text and the value
\* formatted into it.
NoArg == [t |-> "none", v |-> <<>>]
IntArg(n) == [t |-> "int", v |-> n]
MsgArg(m) == [t |-> "msg", v |-> m]
HdrArg(o, m) == [t |-> "hdrs", v |-> <<o, m>>]
Detail(text, arg) == [text |-> text, arg |-> arg]

\* How a scenario function ends: it returns a bool after print_result, or an
\* exception leaves it.
Return(passed, text, arg) ==
  [exc |-> "none", passed |-> passed, detail |-> Detail(text, arg), msg |-> ""]

Throw(e, m) ==
  [exc |-> e, passed |-> FALSE, detail |-> Detail("", NoArg), msg |-> m]

\* `except requests.exceptions.RequestException as e:` closing a scenario.
ExceptRequestException(o, build) ==
  IF o.exc # "none" /\ IsRequestException(o.exc, build)
  THEN Return(FALSE, "Request failed: {e}", MsgArg(o.msg))
  ELSE o

\* `k in data and x in data[k]`
InItem(x, data, k) ==
  LET a == PyIn(k, data)
      g == PyGetItem(data, k)
  IN IF a.exc # "none" \/ ~a.val THEN a
     ELSE IF g.exc # "none" THEN g
     ELSE PyIn(x, g.val)

\* Characters of the content echoed by the success scenario.
MaxExcerpt == 50

\* data['assistant']['content'][:50]
Excerpt(data) ==
  LET a == PyGetItem(data, <<"assistant">>)
      c == PyGetItem(a.val, <<"content">>)
  IN IF a.exc # "none" THEN a
     ELSE IF c.exc # "none" THEN c
     ELSE PySlice(c.val, MaxExcerpt)

\* -------------------------------------------------------- scenario functions
\* Each takes the answer r its one request gets and the installed build, and
\* gives how the function ends.

test_success_request(r, build) ==
  LET j == Json(r)
      data == j.val
      cond == InItem(<<"content">>, data, <<"assistant">>)
      ex == Excerpt(data)
      body ==
        IF r.kind # "response" THEN Throw(r.kind, r.msg)
        ELSE IF r.status = 200
        THEN IF j.exc # "none" THEN Throw(j.exc, "Expecting value")
             ELSE IF cond.exc # "none" THEN Throw(cond.exc, "")
             ELSE IF cond.val
             THEN IF ex.exc # "none" THEN Throw(ex.exc, "")
                  ELSE Return(TRUE, "Got response: {}...", ex.val)
             ELSE Return(FALSE, "Missing 'assistant.content' in response", NoArg)
        ELSE Return(FALSE, "Expected 200, got {}", IntArg(r.status))
  IN IF body.exc = "none" THEN body
     ELSE IF IsTimeout(body.exc) THEN Return(FALSE, "Request timed out", NoArg)
     ELSE IF IsRequestException(body.exc, build)
     THEN Return(FALSE, "Request failed: {e}", MsgArg(body.msg))
     ELSE IF IsJsonDecodeError(body.exc, build)
     THEN Return(FALSE, "Invalid JSON response: {e}", MsgArg(body.msg))
     ELSE body

test_missing_body(r, build) ==
  LET j == Json(r)
      data == j.val
      cond == PyIn(<<"error">>, data)
      body ==
        IF r.kind # "response" THEN Throw(r.kind, r.msg)
        ELSE IF r.status = 400
        THEN IF j.exc # "none" THEN Throw(j.exc, "Expecting value")
             ELSE IF cond.exc # "none" THEN Throw(cond.exc, "")
             ELSE IF cond.val
             THEN LET e == PyGetItem(data, <<"error">>)
                  IN IF e.exc # "none" THEN Throw(e.exc, "")
                     ELSE Return(TRUE, "Got expected error: {}", e.val)
             ELSE Return(FALSE, "Expected error message in response", NoArg)
        ELSE Return(FALSE, "Expected 400, got {}", IntArg(r.status))
  IN ExceptRequestException(body, build)

\* The try block shared, word for word but for the expected substring, by
\* test_missing_thread_id, test_messages_not_array and test_empty_messages.
ValidationTry(needle, r) ==
  LET j == Json(r)
      data == j.val
      cond == InItem(needle, data, <<"error">>)
  IN IF r.kind # "response" THEN Throw(r.kind, r.msg)
     ELSE IF r.status = 400
     THEN IF j.exc # "none" THEN Throw(j.exc, "Expecting value")
          ELSE IF cond.exc # "none" THEN Throw(cond.exc, "")
          ELSE IF cond.val
          THEN Return(TRUE, "Got expected error: {}", PyGetItem(data, <<"error">>).val)
          ELSE LET e == PyGet(data, <<"error">>, Str(<<"unknown">>))
               IN IF e.exc # "none" THEN Throw(e.exc, "")
                  ELSE Return(FALSE, "Unexpected error: {}", e.val)
     ELSE Return(FALSE, "Expected 400, got {}", IntArg(r.status))

\* test_invalid_json, had its else branch failed like the other validation
\* scenarios' does.
test_invalid_json_strict(r, build) ==
  ExceptRequestException(ValidationTry(<<"Invalid JSON">>, r), build)

test_invalid_json(r, build) ==
  LET j == Json(r)
      data == j.val
      cond == InItem(<<"Invalid JSON">>, data, <<"error">>)
      body ==
        IF r.kind # "response" THEN Throw(r.kind, r.msg)
        ELSE IF r.status = 400
        THEN IF j.exc # "none" THEN Throw(j.exc, "Expecting value")
             ELSE IF cond.exc # "none" THEN Throw(cond.exc, "")
             ELSE IF cond.val
             THEN Return(TRUE, "Got expected error: {}", PyGetItem(data, <<"error">>).val)
             ELSE LET e == PyGet(data, <<"error">>, Str(<<"unknown">>))
                  IN IF e.exc # "none" THEN Throw(e.exc, "")
                     ELSE Return(TRUE, "Got 400 with error: {}", e.val)
        ELSE Return(FALSE, "Expected 400, got {}", IntArg(r.status))
  IN ExceptRequestException(body, build)

test_missing_thread_id(r, build) ==
  ExceptRequestException(ValidationTry(<<"threadId">>, r), build)

test_messages_not_array(r, build) ==
  ExceptRequestException(ValidationTry(<<"array">>, r), build)

test_empty_messages(r, build) ==
  ExceptRequestException(ValidationTry(<<"empty">>, r), build)

\* ForbiddenTry, had it decoded the body of a 403 before passing.
ForbiddenTryReadsBody(r) ==
  IF r.kind # "response" THEN Throw(r.kind, r.msg)
  ELSE IF r.status = 403
  THEN IF Json(r).exc # "none" THEN Throw(Json(r).exc, "Expecting value")
       ELSE Return(TRUE, "Got expected 403 Forbidden", NoArg)
  ELSE Return(FALSE, "Expected 403, got {}", IntArg(r.status))

\* The try block shared by test_missing_api_key and test_invalid_api_key.
ForbiddenTry(r) ==
  IF r.kind # "response" THEN Throw(r.kind, r.msg)
  ELSE IF r.status = 403 THEN Return(TRUE, "Got expected 403 Forbidden", NoArg)
  ELSE Return(FALSE, "Expected 403, got {}", IntArg(r.status))

test_missing_api_key(r, build) == ExceptRequestException(ForbiddenTry(r), build)

test_invalid_api_key(r, build) == ExceptRequestException(ForbiddenTry(r), build)

test_cors_preflight(r, build) ==
  LET cors_origin == HeaderGet(r, "Access-Control-Allow-Origin")
      cors_methods == HeaderGet(r, "Access-Control-Allow-Methods")
      body ==
        IF r.kind # "response" THEN Throw(r.kind, r.msg)
        ELSE IF r.status = 200
        THEN IF cors_origin # "" /\ cors_methods # ""
             THEN Return(TRUE, "Origin: {}, Methods: {}", HdrArg(cors_origin, cors_methods))
             ELSE Return(FALSE, "Missing CORS headers in response", NoArg)
        ELSE Return(FALSE, "Expected 200, got {}", IntArg(r.status))
  IN ExceptRequestException(body, build)

\* ------------------------------------------------------------------ requests

Raw(text) == [t |-> "raw", v |-> text]
Text(w) == Str(<<w>>)
Message(w) == Dict({<<<<"role">>, Text("user")>>, <<<<"content">>, Text(w)>>})
Payload(thread, messages) ==
  Dict({<<<<"threadId">>, thread>>, <<<<"messages">>, messages>>})

Request(method, url, headers, enc, payload) ==
  [method |-> method, url |-> url, headers |-> headers, enc |-> enc, payload |-> payload]

DefaultHeaders(api_key) ==
  {<<"Content-Type", "application/json">>, <<"X-Api-Key", api_key>>}

\* requests.post(url, headers=headers, json=payload, timeout=30)
make_request(url, api_key, payload) ==
  Request("POST", url, DefaultHeaders(api_key), "json", payload)

\* The one request each scenario function sends.
RequestOf(f, url, api_key) ==
  CASE f = "test_success_request" ->
         make_request(url, api_key,
           Payload(Text("test-thread-001"),
                   List(<<Message("Say 'Hello test' and nothing else.")>>)))
    [] f = "test_missing_body" ->
         Request("POST", url, DefaultHeaders(api_key), "data", Raw(""))
    [] f = "test_invalid_json" ->
         Request("POST", url, DefaultHeaders(api_key), "data", Raw("{invalid json"))
    [] f = "test_missing_thread_id" ->
         make_request(url, api_key,
           Dict({<<<<"messages">>, List(<<Message("Hello")>>)>>}))
    [] f = "test_messages_not_array" ->
         make_request(url, api_key, Payload(Text("test-thread"), Text("not an array")))
    [] f = "test_empty_messages" ->
         make_request(url, api_key, Payload(Text("test-thread"), List(<<>>)))
    [] f = "test_missing_api_key" ->
         Request("POST", url, {<<"Content-Type", "application/json">>}, "json",
           Payload(Text("test-thread"), List(<<Message("Hello")>>)))
    [] f = "test_invalid_api_key" ->
         make_request(url, "invalid-api-key-12345",
           Payload(Text("test-thread"), List(<<Message("Hello")>>)))
    [] f = "test_cors_preflight" ->
         Request("OPTIONS", url,
           {<<"Access-Control-Request-Method", "POST">>, <<"Origin", "http://localhost:5173">>},
           "none", Raw(""))

\* test_func(url, api_key, verbose), given the answer its request gets.
Call(f, r, build) ==
  CASE f = "test_success_request" -> test_success_request(r, build)
    [] f = "test_missing_body" -> test_missing_body(r, build)
    [] f = "test_invalid_json" -> test_invalid_json(r, build)
    [] f = "test_missing_thread_id" -> test_missing_thread_id(r, build)
    [] f = "test_messages_not_array" -> test_messages_not_array(r, build)
    [] f = "test_empty_messages" -> test_empty_messages(r, build)
    [] f = "test_missing_api_key" -> test_missing_api_key(r, build)
    [] f = "test_invalid_api_key" -> test_invalid_api_key(r, build)
    [] f = "test_cors_preflight" -> test_cors_preflight(r, build)

\* ------------------------------------------------------------------ registry

\* run_all_tests' list of (name, test_func).
tests ==
  << <<"Success Request", "test_success_request">>,
     <<"Missing Body", "test_missing_body">>,
     <<"Invalid JSON", "test_invalid_json">>,
     <<"Missing threadId", "test_missing_thread_id">>,
     <<"Messages Not Array", "test_messages_not_array">>,
     <<"Empty Messages", "test_empty_messages">>,
     <<"Missing API Key", "test_missing_api_key">>,
     <<"Invalid API Key", "test_invalid_api_key">>,
     <<"CORS Preflight", "test_cors_preflight">> >>

\* main's test_map, as pairs of (--test choice, test_func).
test_map ==
  { <<"success", "test_success_request">>,
    <<"missing-body", "test_missing_body">>,
    <<"invalid-json", "test_invalid_json">>,
    <<"missing-threadid", "test_missing_thread_id">>,
    <<"messages-not-array", "test_messages_not_array">>,
    <<"empty-messages", "test_empty_messages">>,
    <<"missing-key", "test_missing_api_key">>,
    <<"invalid-key", "test_invalid_api_key">>,
    <<"cors", "test_cors_preflight">> }

TestMapGet(k) == (CHOOSE p \in test_map : p[1] = k)[2]

\* -------------------------------------------------------------- command line

EnvChoices == {"prod", "test"}

TestChoices == {"all"} \cup {p[1] : p \in test_map}

\* A command line: whether -h/--help is on it, and the values of --env and
\* --test (their defaults when absent), accepted or not.
Argvs ==
  [help : BOOLEAN, env : EnvChoices \cup {"staging"}, test : TestChoices \cup {"bogus"}]

ArgvValid(argv) == argv.env \in EnvChoices /\ argv.test \in TestChoices

\* --------------------------------------------------------------- environment

\* os.environ.get(name): <<>> is None (unset), otherwise <<the value>>.
EnvValues(v) == {<<>>, <<"">>, <<v>>}

Environs ==
  [API_KEY : EnvValues("secret"), PROD_API_URL : EnvValues("https://prod"),
   TEST_API_URL : EnvValues("https://test")]

\* Not, as `x is None` would have it: the empty string counts as set.
NotNoneOnly(x) == x = <<>>

\* Python's `not x` for None or a str.
Not(x) == x = <<>> \/ x = <<"">>

get_api_key(environ) ==
  IF Not(environ.API_KEY) THEN Raise("EnvironmentError") ELSE Val(environ.API_KEY[1])

UrlVar(env) == IF env = "prod" THEN "PROD_API_URL" ELSE "TEST_API_URL"

get_api_url(environ, env) ==
  LET url == IF env = "prod" THEN environ.PROD_API_URL ELSE environ.TEST_API_URL
  IN IF Not(url) THEN Raise("EnvironmentError") ELSE Val(url[1])

\* ------------------------------------------------------------------- state

VARIABLES
  pc,         \* where main is: "main", "config", "single", "all", "exited"
  build,      \* the class response.json() raises in this installation
  args,       \* the namespace parse_args returned
  env_seen,   \* the environment variables looked up so far, with what they held
  api_key,    \* main's local api_key
  url,        \* main's local url
  results,    \* run_all_tests' results: passed, failed, details
  i,          \* the position of run_all_tests' loop in tests
  last,       \* the latest scenario call: function, request, answer, how it ended
  called,     \* scenario functions called so far
  sent,       \* requests handed to the network so far
  reported,   \* configuration errors printed so far
  exit_code   \* the process's exit status, -1 while it runs

vars ==
  <<pc, build, args, env_seen, api_key, url, results, i, last, called, sent, reported,
    exit_code>>

NoArgs == [env |-> "", test |-> ""]

NoCall ==
  [func |-> "", req |-> Request("", "", {}, "none", Raw("")), resp |-> Failure("", ""),
   out |-> Throw("", ""), printed |-> FALSE, passed |-> FALSE, detail |-> Detail("", NoArg)]

\* One call of scenario function f answered by r: what it sent, how it ended
\* and the verdict line it printed (none when an exception left it).
CallRecord(f, r) ==
  LET o == Call(f, r, build)
  IN [func |-> f, req |-> RequestOf(f, url, api_key), resp |-> r, out |-> o,
      printed |-> (o.exc = "none"), passed |-> o.passed, detail |-> o.detail]

Init ==
  /\ pc = "main"
  /\ build \in Builds
  /\ args = NoArgs
  /\ env_seen = {}
  /\ api_key = ""
  /\ url = ""
  /\ results = [passed |-> 0, failed |-> 0, details |-> <<>>]
  /\ i = 1
  /\ last = NoCall
  /\ called = 0
  /\ sent = 0
  /\ reported = 0
  /\ exit_code = -1

\* sys.exit(code), or the interpreter ending on an uncaught exception (code 1).
Exit(code) == pc' = "exited" /\ exit_code' = code

\* parse_args() meets -h/--help: argparse prints the help and exits 0.  An
\* option before it on the command line is checked first, so a bad value there
\* wins; after it, the help wins.
ParseHelp ==
  /\ pc = "main"
  /\ \E argv \in Argvs : argv.help
  /\ Exit(0)
  /\ UNCHANGED <<build, args, env_seen, api_key, url, results, i, last, called, sent, reported>>

\* parse_args() meets a value outside an option's choices: argparse prints the
\* usage and exits 2.
ParseError ==
  /\ pc = "main"
  /\ \E argv \in Argvs : ~ArgvValid(argv)
  /\ Exit(2)
  /\ UNCHANGED <<build, args, env_seen, api_key, url, results, i, last, called, sent, reported>>

ParseOk ==
  /\ pc = "main"
  /\ \E argv \in Argvs :
       /\ ~argv.help
       /\ ArgvValid(argv)
       /\ args' = [env |-> argv.env, test |-> argv.test]
  /\ pc' = "config"
  /\ UNCHANGED <<build, env_seen, api_key, url, results, i, last, called, sent, reported, exit_code>>

\* main, lines 449-454: a lookup raised EnvironmentError.
ConfigError ==
  /\ pc = "config"
  /\ \E environ \in Environs :
       LET k == get_api_key(environ)
           u == get_api_url(environ, args.env)
       IN /\ k.exc # "none" \/ u.exc # "none"
          /\ env_seen' =
               IF k.exc # "none" THEN {<<"API_KEY", environ.API_KEY>>}
               ELSE {<<"API_KEY", environ.API_KEY>>,
                     <<UrlVar(args.env), environ[UrlVar(args.env)]>>}
          /\ api_key' = IF k.exc = "none" THEN k.val ELSE api_key
  /\ reported' = reported + 1
  /\ Exit(1)
  /\ UNCHANGED <<build, args, url, results, i, last, called, sent>>

\* main, lines 449-473: both lookups returned; the mode is chosen.
ConfigOk ==
  /\ pc = "config"
  /\ \E environ \in Environs :
       LET k == get_api_key(environ)
           u == get_api_url(environ, args.env)
       IN /\ k.exc = "none" /\ u.exc = "none"
          /\ env_seen' = {<<"API_KEY", environ.API_KEY>>,
                          <<UrlVar(args.env), environ[UrlVar(args.env)]>>}
          /\ api_key' = k.val
          /\ url' = u.val
  /\ pc' = IF args.test = "all" THEN "all" ELSE "single"
  /\ UNCHANGED <<build, args, results, i, last, called, sent, reported, exit_code>>

\* IsException, had the loop caught requests' and JSON errors only.
IsExceptionNarrow(e) == e \in {"Timeout", "ConnectionError", "JSONDecodeError"}

\* `except Exception` of run_all_tests: every exception a scenario can raise
\* from a response is an Exception.
IsException(e) ==
  e \in {"Timeout", "ConnectionError", "JSONDecodeError", "TypeError", "KeyError",
         "AttributeError"}

\* run_all_tests, lines 398-402: count the verdict the function returned and
\* append it.  The count and the append are one step: nothing runs between them.
Record(res, name, passed) ==
  [passed |-> res.passed + (IF passed THEN 1 ELSE 0),
   failed |-> res.failed + (IF passed THEN 0 ELSE 1),
   details |-> Append(res.details, <<name, passed>>)]

\* RecordError, had the handler appended the verdict without counting it.
RecordErrorUncounted(res, name) ==
  [res EXCEPT !.details = Append(@, <<name, FALSE>>)]

\* run_all_tests, lines 403-406: an exception left the function.
RecordError(res, name) ==
  [res EXCEPT !.failed = @ + 1, !.details = Append(@, <<name, FALSE>>)]

\* SummaryStatus, had the test been `failed > 1`.
SummaryStatusOffByOne(res) == IF res.failed > 1 THEN 1 ELSE 0

\* main, lines 484-492: the exit status after a full run.
SummaryStatus(res) == IF res.failed > 0 THEN 1 ELSE 0

\* main, line 497, and the interpreter's status 1 for an uncaught exception.
SingleStatus(o) == IF o.exc # "none" THEN 1 ELSE IF o.passed THEN 0 ELSE 1

\* main, lines 495-497: the one named scenario, with nothing around the call.
RunSingle ==
  /\ pc = "single"
  /\ \E r \in Responses :
       LET c == CallRecord(TestMapGet(args.test), r)
       IN /\ last' = c
          /\ Exit(SingleStatus(c.out))
  /\ called' = called + 1
  /\ sent' = sent + 1
  /\ UNCHANGED <<build, args, env_seen, api_key, url, results, i, reported>>

\* run_all_tests, lines 395-406: one turn of the loop.
RunNext ==
  /\ pc = "all"
  /\ i <= Len(tests)
  /\ \E r \in FullRunResponses :
       LET name == tests[i][1]
           c == CallRecord(tests[i][2], r)
       IN IF c.out.exc = "none"
          THEN /\ last' = c
               /\ results' = Record(results, name, c.out.passed)
               /\ i' = i + 1
               /\ pc' = pc
               /\ exit_code' = exit_code
          ELSE IF IsException(c.out.exc)
          THEN /\ last' = [c EXCEPT !.printed = TRUE, !.passed = FALSE,
                                    !.detail = Detail("Unexpected error: {e}", MsgArg(c.out.msg))]
               /\ results' = RecordError(results, name)
               /\ i' = i + 1
               /\ pc' = pc
               /\ exit_code' = exit_code
          ELSE /\ last' = c
               /\ results' = results
               /\ i' = i
               /\ Exit(1)
  /\ called' = called + 1
  /\ sent' = sent + 1
  /\ UNCHANGED <<build, args, env_seen, api_key, url, reported>>

\* main, lines 474-492: the summary and the exit status of a full run.
Summary ==
  /\ pc = "all"
  /\ i > Len(tests)
  /\ Exit(SummaryStatus(results))
  /\ UNCHANGED <<build, args, env_seen, api_key, url, results, i, last, called, sent, reported>>

Next ==
  \/ ParseHelp
  \/ ParseError
  \/ ParseOk
  \/ ConfigError
  \/ ConfigOk
  \/ RunSingle
  \/ RunNext
  \/ Summary

Spec == Init /\ [][Next]_vars

\* ------------------------------------------------------------------ claims

\* Words used by the claims below.
FullRun == args.test = "all" /\ pc \in {"all", "exited"} /\ url # ""
RunEnded == FullRun /\ pc = "exited"
Called(f) == last.func = f
Pass == last.printed /\ last.passed
FailVerdict == last.printed /\ ~last.passed
Escaped == last.func # "" /\ last.out.exc # "none"
Answered(st) == last.resp.kind = "response" /\ last.resp.status = st
NumberOf(b) == Cardinality({k \in 1..Len(results.details) : results.details[k][2] = b})

\* C1: in a full run, at every point passed + failed is the number of verdicts
\* recorded so far, passed is the number of recorded pass verdicts and failed
\* the number of recorded fail verdicts; when the run ends passed + failed is
\* 9, the number of scenarios in the registry.
C1_CountsFollowVerdicts ==
  /\ results.passed + results.failed = Len(results.details)
  /\ results.passed = NumberOf(TRUE)
  /\ results.failed = NumberOf(FALSE)
  /\ RunEnded => results.passed + results.failed = 9 /\ Len(tests) = 9

\* C1 witness: a full run with a pass and a fail recorded in which the latest
\* scenario raised and was counted as failed.
C1_Witness ==
  /\ FullRun
  /\ Escaped
  /\ results.passed > 0
  /\ results.failed > 1
  /\ results.passed + results.failed = i - 1

\* C2: a full run records the scenarios in registry order, one verdict each,
\* and a scenario that raises gets a fail verdict and does not end the run: the
\* recorded names are always the first names of the registry, and after the
\* run they are exactly the nine registry names in order.
RegistryNames ==
  <<"Success Request", "Missing Body", "Invalid JSON", "Missing threadId",
    "Messages Not Array", "Empty Messages", "Missing API Key", "Invalid API Key",
    "CORS Preflight">>

C2_RegistryOrder ==
  /\ Len(results.details) <= Len(RegistryNames)
  /\ \A k \in 1..Len(results.details) : results.details[k][1] = RegistryNames[k]
  /\ FullRun => Len(results.details) = i - 1
  /\ FullRun /\ Escaped =>
       /\ Len(results.details) > 0
       /\ results.details[Len(results.details)] = <<RegistryNames[i - 1], FALSE>>
       /\ FailVerdict
  /\ RunEnded => [k \in 1..Len(results.details) |-> results.details[k][1]] = RegistryNames

\* C2 witness: the first scenario raised and the run went on to record all nine.
C2_Witness ==
  /\ RunEnded
  /\ Len(results.details) = 9
  /\ results.details[1][2] = FALSE
  /\ results.details[9][2] = TRUE
  /\ Called("test_cors_preflight")

\* C3: in both modes, for every scenario that expects a JSON body, a response
\* whose body is not valid JSON, and any transport failure, makes the scenario
\* function return a fail verdict; no error leaves the function uncaught.
ExpectsJson ==
  {"test_success_request", "test_missing_body", "test_invalid_json",
   "test_missing_thread_id", "test_messages_not_array", "test_empty_messages"}

C3_BadBodyOrTransportFails ==
  /\ last.func # "" /\ last.resp.kind # "response" =>
       last.out.exc = "none" /\ ~last.out.passed
  /\ last.func \in ExpectsJson /\ last.resp.kind = "response" /\ last.resp.body = NotJSON =>
       last.out.exc = "none" /\ ~last.out.passed

\* C4 as claimed: the exit code is 0 exactly when the credential and the base
\* URL are available and every selected scenario produced a pass verdict, and
\* 1 in every other case.
SelectedPassed ==
  IF args.test = "all"
  THEN Len(results.details) = 9 /\ \A k \in 1..9 : results.details[k][2]
  ELSE last.func # "" /\ last.func = TestMapGet(args.test) /\ Pass

ConfigAvailable == api_key # "" /\ url # ""

C4_ExitCodeAsClaimed ==
  pc = "exited" =>
    /\ exit_code \in {0, 1}
    /\ exit_code = 0 <=> (ConfigAvailable /\ args # NoArgs /\ SelectedPassed)

\* C4 amended: when the command line is accepted, the exit code is 0 exactly
\* when the credential and the base URL are available and every selected
\* scenario produced a pass verdict, and 1 otherwise; a command line that is
\* not accepted ends the process in parse_args, before any lookup or request,
\* with 0 for -h/--help and 2 for an invalid value.
C4_ExitCode ==
  pc = "exited" =>
    IF args # NoArgs
    THEN /\ exit_code \in {0, 1}
         /\ exit_code = 0 <=> (ConfigAvailable /\ SelectedPassed)
    ELSE exit_code \in {0, 2} /\ env_seen = {} /\ called = 0 /\ sent = 0

\* C4 witness: a full run in which all nine scenarios passed exits 0.
C4_Witness ==
  /\ RunEnded
  /\ results.passed = 9
  /\ exit_code = 0

\* C5: if the credential or the base URL of the selected environment is unset
\* or empty, the configuration error is reported before any scenario runs: no
\* scenario function is called, no request is sent, the exit code is not 0.
\* The variable looked up for the URL is the selected environment's.
Falsy(v) == v = <<>> \/ v = <<"">>

C5_ConfigErrorFirst ==
  /\ (\E p \in env_seen : Falsy(p[2])) =>
       /\ called = 0 /\ sent = 0 /\ last = NoCall /\ results.details = <<>>
       /\ reported = 1
       /\ pc = "exited" /\ exit_code # 0
  /\ called > 0 \/ sent > 0 =>
       /\ reported = 0
       /\ env_seen =
            {<<"API_KEY", <<api_key>>>>,
             <<(IF args.env = "prod" THEN "PROD_API_URL" ELSE "TEST_API_URL"), <<url>>>>}
       /\ api_key # "" /\ url # ""

\* C5 witness: the credential is set and the selected environment's URL is empty.
C5_Witness ==
  /\ pc = "exited"
  /\ args.env = "prod"
  /\ <<"API_KEY", <<"secret">>>> \in env_seen
  /\ <<"PROD_API_URL", <<"">>>> \in env_seen
  /\ exit_code = 1

\* C6: for each of the nine scenarios a request timeout yields a fail verdict
\* whose detail is specific to timeouts, different from the detail any other
\* transport failure gets, and the timeout does not leave the scenario.
C6_TimeoutDetailDistinct ==
  last.func # "" /\ last.resp.kind = "Timeout" =>
    /\ last.out.exc = "none"
    /\ ~last.out.passed
    /\ \A m \in Msgs :
         last.out.detail # Call(last.func, Failure("ConnectionError", m), build).detail

\* C7: the success scenario's verdict is pass exactly when the status is 200
\* and the body is JSON holding the key path assistant.content, whatever the
\* JSON types of the values under 'assistant' and 'content'.
HasKey(x, k) == x.t = "dict" /\ \E p \in x.v : p[1] = k
ValueAt(x, k) == (CHOOSE p \in x.v : p[1] = k)[2]

HasAssistantContent(b) ==
  /\ HasKey(b, <<"assistant">>)
  /\ HasKey(ValueAt(b, <<"assistant">>), <<"content">>)

C7_SuccessPassIff ==
  Called("test_success_request") =>
    (Pass <=> (Answered(200) /\ HasAssistantContent(last.resp.body)))

\* C8: missing-threadid, messages-not-array and empty-messages pass exactly
\* when the status is 400 and the body is JSON with an 'error' key whose string
\* value contains 'threadId', 'array', 'empty' respectively; any other status
\* yields a fail verdict whose detail reports the status.
Expected ==
  { <<"test_missing_thread_id", <<"threadId">>>>,
    <<"test_messages_not_array", <<"array">>>>,
    <<"test_empty_messages", <<"empty">>>> }

ErrorStringContains(b, needle) ==
  /\ HasKey(b, <<"error">>)
  /\ ValueAt(b, <<"error">>).t = "str"
  /\ IsSubstring(needle, ValueAt(b, <<"error">>).v)

C8_ValidationPassIff ==
  \A e \in Expected :
    Called(e[1]) =>
      /\ Pass <=> (Answered(400) /\ ErrorStringContains(last.resp.body, e[2]))
      /\ last.resp.kind = "response" /\ last.resp.status # 400 =>
           /\ FailVerdict
           /\ last.detail = Detail("Expected 400, got {}", IntArg(last.resp.status))

\* C9 as claimed: the invalid-json scenario passes exactly when the status is
\* 400 and the body carries an 'error' key; a 400 without one does not pass.
C9_InvalidJsonAsClaimed ==
  Called("test_invalid_json") =>
    (Pass <=> (Answered(400) /\ HasKey(last.resp.body, <<"error">>)))

\* C9 amended: the invalid-json scenario passes exactly when the status is 400
\* and the body is a JSON object whose 'error' value, if there is one, is a
\* string, an array or an object; the text of the error is not looked at, and
\* a 400 whose JSON object has no 'error' key passes too.
C9_InvalidJsonPassIff ==
  Called("test_invalid_json") =>
    (Pass <=>
       /\ Answered(400)
       /\ last.resp.body.t = "dict"
       /\ HasKey(last.resp.body, <<"error">>) =>
            ValueAt(last.resp.body, <<"error">>).t \in {"str", "list", "dict"})

\* C9 witness: a 400 with the JSON object {} passed.
C9_Witness ==
  /\ Called("test_invalid_json")
  /\ Answered(400)
  /\ last.resp.body = Dict({})
  /\ Pass

\* C10: missing-key (sent without the X-Api-Key header) and invalid-key (sent
\* with a substitute credential) pass exactly when the status is 403, whatever
\* the body; every other status and every transport failure fails, and nothing
\* is raised.
HeaderNames(req) == {p[1] : p \in req.headers}

C10_ForbiddenPassIff ==
  /\ Called("test_missing_api_key") \/ Called("test_invalid_api_key") =>
       /\ Pass <=> Answered(403)
       /\ last.out.exc = "none"
  /\ Called("test_missing_api_key") => "X-Api-Key" \notin HeaderNames(last.req)
  /\ Called("test_invalid_api_key") =>
       /\ <<"X-Api-Key", "invalid-api-key-12345">> \in last.req.headers
       /\ <<"X-Api-Key", api_key>> \notin last.req.headers

\* C10 witness: a 403 whose body is a JSON object passed the missing-key scenario.
C10_Witness ==
  /\ Called("test_missing_api_key")
  /\ Answered(403)
  /\ last.resp.body.t = "dict"
  /\ Pass

====
